---- MODULE Spec2Model ----
(***************************************************************************)
(* A model of ClipBridge's broadcast server (src/clipbridge.py): the framed *)
(* wire protocol, the connection registry, the selector-driven event loop, *)
(* the clipboard watcher thread and shutdown.                               *)
(*                                                                         *)
(* Texts are sequences of Unicode code points, byte strings are sequences  *)
(* of 0..255.  Three threads run: "el" (start/_serve_loop and the shutdown  *)
(* of its finally clause), "w" (_clipboard_watch_loop) and "ext" (another   *)
(* thread that calls shutdown).  A thread's step is one action; a step ends *)
(* where another thread's access to shared data can make a difference.      *)
(***************************************************************************)
EXTENDS Integers, Sequences, FiniteSets, TLC

\* ------------------------------------------------------------ constants
MSG_TEXT == 1
MAX_BYTES == 1048576
RECV_SIZE == 65536

\* ------------------------------------------------------------ bounds
\* Connections 1..NumConns may ever be made; each connects at most once.
NumConns == 3
\* Changes of the OS clipboard made by the local user.
MaxCopies == 1
\* Calls of shutdown made by the other thread.
MaxShutdownCalls == 2

Conns == 1..NumConns
\* The listening socket, as a file object of the selector.
Server == 0
Threads == {"el", "w", "ext"}

\* ------------------------------------------------------------ texts
\* A code point standing for a run of MAX_BYTES + 1 letters: the one text
\* element whose encoding is longer than a frame may carry.
BigRun == 1114111 + 1

Min(a, b) == IF a < b THEN a ELSE b

SeqToSet(s) == {s[i] : i \in 1..Len(s)}

RemoveFrom(s, x) == SelectSeq(s, LAMBDA y : y # x)

\* A lone surrogate, U+D800..U+DFFF: a code point a str can hold and
\* str.encode("utf-8") refuses.
IsSurrogate(cp) == cp >= 55296 /\ cp <= 57343

\* What stands for UnicodeEncodeError being raised: in place of the bytes (no
\* byte is negative), and in place of their number.
EncodeError == <<-1>>
LenError == -1

\* str.encode("utf-8") of one code point.
EncodeCp(cp) ==
    IF IsSurrogate(cp) THEN EncodeError
    ELSE IF cp < 128 THEN <<cp>>
    ELSE IF cp < 2048 THEN <<192 + (cp \div 64), 128 + (cp % 64)>>
    ELSE IF cp < 65536
         THEN <<224 + (cp \div 4096), 128 + ((cp \div 64) % 64), 128 + (cp % 64)>>
         ELSE <<240 + (cp \div 262144), 128 + ((cp \div 4096) % 64),
                128 + ((cp \div 64) % 64), 128 + (cp % 64)>>

\* len(str.encode("utf-8")) of one code point.
CpLen(cp) ==
    IF cp = BigRun THEN MAX_BYTES + 1
    ELSE IF IsSurrogate(cp) THEN LenError
    ELSE IF cp < 128 THEN 1
    ELSE IF cp < 2048 THEN 2
    ELSE IF cp < 65536 THEN 3 ELSE 4

\* len(text.encode("utf-8")); the encoding raises for the whole text when
\* one code point cannot be encoded.
RECURSIVE Utf8Len(_)
Utf8Len(text) ==
    IF text = <<>> THEN 0
    ELSE LET h == CpLen(Head(text))
             r == Utf8Len(Tail(text))
         IN  IF h = LenError \/ r = LenError THEN LenError ELSE h + r

\* text.encode("utf-8").
RECURSIVE Utf8Encode(_)
Utf8Encode(text) ==
    IF text = <<>> THEN <<>>
    ELSE LET h == EncodeCp(Head(text))
             r == Utf8Encode(Tail(text))
         IN  IF h = EncodeError \/ r = EncodeError THEN EncodeError ELSE h \o r

IsCont(b) == b >= 128 /\ b <= 191

\* The length of the UTF-8 sequence that starts the bytes, 0 when they start
\* with no well-formed sequence (bytes.decode("utf-8") is strict: no overlong
\* forms, no surrogates, nothing above U+10FFFF, no truncated sequence).
SeqLenAt(b) ==
    LET n == Len(b)
        b1 == b[1]
    IN  IF b1 < 128 THEN 1
        ELSE IF b1 >= 194 /\ b1 <= 223
             THEN IF n >= 2 /\ IsCont(b[2]) THEN 2 ELSE 0
        ELSE IF b1 >= 224 /\ b1 <= 239
             THEN IF n >= 3 /\ IsCont(b[2]) /\ IsCont(b[3])
                     /\ (b1 = 224 => b[2] >= 160)
                     /\ (b1 = 237 => b[2] <= 159)
                  THEN 3 ELSE 0
        ELSE IF b1 >= 240 /\ b1 <= 244
             THEN IF n >= 4 /\ IsCont(b[2]) /\ IsCont(b[3]) /\ IsCont(b[4])
                     /\ (b1 = 240 => b[2] >= 144)
                     /\ (b1 = 244 => b[2] <= 143)
                  THEN 4 ELSE 0
        ELSE 0

DecodeCp(b, k) ==
    IF k = 1 THEN b[1]
    ELSE IF k = 2 THEN (b[1] - 192) * 64 + (b[2] - 128)
    ELSE IF k = 3 THEN (b[1] - 224) * 4096 + (b[2] - 128) * 64 + (b[3] - 128)
    ELSE (b[1] - 240) * 262144 + (b[2] - 128) * 4096 + (b[3] - 128) * 64
         + (b[4] - 128)

\* payload.decode("utf-8"): ok is FALSE where Python raises UnicodeDecodeError.
RECURSIVE Utf8Decode(_)
Utf8Decode(b) ==
    IF b = <<>> THEN [ok |-> TRUE, text |-> <<>>]
    ELSE LET k == SeqLenAt(b)
         IN  IF k = 0 THEN [ok |-> FALSE, text |-> <<>>]
             ELSE LET r == Utf8Decode(SubSeq(b, k + 1, Len(b)))
                  IN  [ok |-> r.ok,
                       text |-> IF r.ok THEN <<DecodeCp(b, k)>> \o r.text ELSE <<>>]

\* struct.pack(">I", n) and struct.unpack(">I", b)[0].
Pack32(n) ==
    <<(n \div 16777216) % 256, (n \div 65536) % 256, (n \div 256) % 256, n % 256>>

Unpack32(b) == b[1] * 16777216 + b[2] * 65536 + b[3] * 256 + b[4]

\* frame_text: ok is FALSE where it raises, UnicodeEncodeError from the
\* encoding (line 23) or ValueError("payload too large") (line 25).
frame_text(text) ==
    LET n == Utf8Len(text)
    IN  IF n = LenError
        THEN [ok |-> FALSE, raises |-> "UnicodeEncodeError", bytes |-> <<>>]
        ELSE IF n > MAX_BYTES
        THEN [ok |-> FALSE, raises |-> "ValueError", bytes |-> <<>>]
        ELSE [ok |-> TRUE, raises |-> "none",
              bytes |-> <<MSG_TEXT>> \o Pack32(n) \o Utf8Encode(text)]

\* What subprocess.run(..., text=True) makes of the tool's output: universal
\* newlines, "\r\n" and "\r" read as "\n".
RECURSIVE UniversalNewlines(_)
UniversalNewlines(text) ==
    IF text = <<>> THEN <<>>
    ELSE IF Head(text) = 13
         THEN IF Len(text) >= 2 /\ text[2] = 10
              THEN <<10>> \o UniversalNewlines(SubSeq(text, 3, Len(text)))
              ELSE <<10>> \o UniversalNewlines(Tail(text))
         ELSE <<Head(text)>> \o UniversalNewlines(Tail(text))

\* _process_frames without the test of the length field against MAX_BYTES: a
\* header that announces too much makes the server wait for the payload.
FrameStepNoLimit(buf) ==
    IF Len(buf) < 5 THEN [kind |-> "wait", text |-> <<>>, rest |-> buf]
    ELSE IF buf[1] # MSG_TEXT THEN [kind |-> "bad_type", text |-> <<>>, rest |-> buf]
    ELSE LET length == Unpack32(SubSeq(buf, 2, 5))
         IN  IF Len(buf) < 5 + length
             THEN [kind |-> "wait", text |-> <<>>, rest |-> buf]
             ELSE LET payload == SubSeq(buf, 6, 5 + length)
                      rest == SubSeq(buf, 6 + length, Len(buf))
                      d == Utf8Decode(payload)
                  IN  IF d.ok
                      THEN [kind |-> "text", text |-> d.text, rest |-> rest]
                      ELSE [kind |-> "skip", text |-> <<>>, rest |-> rest]

\* _process_frames where a payload that is not UTF-8 drops the connection, as
\* a bad type byte does.
FrameStepStrict(buf) ==
    IF Len(buf) < 5 THEN [kind |-> "wait", text |-> <<>>, rest |-> buf]
    ELSE IF buf[1] # MSG_TEXT THEN [kind |-> "bad_type", text |-> <<>>, rest |-> buf]
    ELSE LET length == Unpack32(SubSeq(buf, 2, 5))
         IN  IF length < 0 \/ length > MAX_BYTES
             THEN [kind |-> "bad_length", text |-> <<>>, rest |-> buf]
             ELSE IF Len(buf) < 5 + length
             THEN [kind |-> "wait", text |-> <<>>, rest |-> buf]
             ELSE LET payload == SubSeq(buf, 6, 5 + length)
                      rest == SubSeq(buf, 6 + length, Len(buf))
                      d == Utf8Decode(payload)
                  IN  IF d.ok
                      THEN [kind |-> "text", text |-> d.text, rest |-> rest]
                      ELSE [kind |-> "bad_type", text |-> <<>>, rest |-> buf]

\* _process_frames taking the second of two buffered frames before the first.
FrameStepLast(buf) ==
    LET Step(b) ==
            IF Len(b) < 5 THEN [kind |-> "wait", text |-> <<>>, rest |-> b]
            ELSE IF b[1] # MSG_TEXT
            THEN [kind |-> "bad_type", text |-> <<>>, rest |-> b]
            ELSE LET length == Unpack32(SubSeq(b, 2, 5))
                 IN  IF length < 0 \/ length > MAX_BYTES
                     THEN [kind |-> "bad_length", text |-> <<>>, rest |-> b]
                     ELSE IF Len(b) < 5 + length
                     THEN [kind |-> "wait", text |-> <<>>, rest |-> b]
                     ELSE LET d == Utf8Decode(SubSeq(b, 6, 5 + length))
                              rest == SubSeq(b, 6 + length, Len(b))
                          IN  IF d.ok
                              THEN [kind |-> "text", text |-> d.text, rest |-> rest]
                              ELSE [kind |-> "skip", text |-> <<>>, rest |-> rest]
        r == Step(buf)
        q == Step(r.rest)
    IN  IF r.kind = "text" /\ q.kind = "text"
        THEN [kind |-> "text", text |-> q.text,
              rest |-> SubSeq(buf, 1, Len(buf) - Len(r.rest)) \o q.rest]
        ELSE r

\* _process_frames waiting for one byte more than the frame has.
FrameStepOffByOne(buf) ==
    IF Len(buf) < 5 THEN [kind |-> "wait", text |-> <<>>, rest |-> buf]
    ELSE IF buf[1] # MSG_TEXT THEN [kind |-> "bad_type", text |-> <<>>, rest |-> buf]
    ELSE LET length == Unpack32(SubSeq(buf, 2, 5))
         IN  IF length < 0 \/ length > MAX_BYTES
             THEN [kind |-> "bad_length", text |-> <<>>, rest |-> buf]
             ELSE IF Len(buf) <= 5 + length
             THEN [kind |-> "wait", text |-> <<>>, rest |-> buf]
             ELSE LET payload == SubSeq(buf, 6, 5 + length)
                      rest == SubSeq(buf, 6 + length, Len(buf))
                      d == Utf8Decode(payload)
                  IN  IF d.ok
                      THEN [kind |-> "text", text |-> d.text, rest |-> rest]
                      ELSE [kind |-> "skip", text |-> <<>>, rest |-> rest]

\* One pass of the loop of _process_frames over the buffer:
\*   wait        no complete frame (the loop breaks),
\*   bad_type    the type byte is not MSG_TEXT (the connection is dropped),
\*   bad_length  the length field exceeds MAX_BYTES (dropped),
\*   skip        a frame was consumed whose payload is not UTF-8 (continue),
\*   text        a frame was consumed and decoded.
FrameStep(buf) ==
    IF Len(buf) < 5 THEN [kind |-> "wait", text |-> <<>>, rest |-> buf]
    ELSE IF buf[1] # MSG_TEXT THEN [kind |-> "bad_type", text |-> <<>>, rest |-> buf]
    ELSE LET length == Unpack32(SubSeq(buf, 2, 5))
         IN  IF length < 0 \/ length > MAX_BYTES
             THEN [kind |-> "bad_length", text |-> <<>>, rest |-> buf]
             ELSE IF Len(buf) < 5 + length
             THEN [kind |-> "wait", text |-> <<>>, rest |-> buf]
             ELSE LET payload == SubSeq(buf, 6, 5 + length)
                      rest == SubSeq(buf, 6 + length, Len(buf))
                      d == Utf8Decode(payload)
                  IN  IF d.ok
                      THEN [kind |-> "text", text |-> d.text, rest |-> rest]
                      ELSE [kind |-> "skip", text |-> <<>>, rest |-> rest]


\* ------------------------------------------------------------ state
VARIABLES
    clients,            \* self.clients: the registered sockets, in insertion order
    rbuf,               \* ClientState.rbuf of each connection
    selReg,             \* the file objects registered with self.sel
    selClosed,          \* self.sel has been closed
    server,             \* self.server: "listening" or "None"
    sockOpen,           \* the accepted sockets that are open
    stop,               \* self._stop
    lock,               \* self._lock: "free" or the thread that holds it
    to_broadcast,       \* self.to_broadcast: the frames queued by the watcher
    last_polled,        \* self._last_polled: <<>> for None, <<t>> for the text t
    last_sent_from_pc,  \* self._last_sent_from_pc, likewise
    clipboard,          \* the OS clipboard: its text, who put it there ("local":
                        \* the user, "peer": a peer's frame, "echo": a peer's
                        \* echo), and, for a user's copy, whether the watcher had
                        \* seen the text before it and had not sent the new one
    pc,                 \* where each thread is
    events,             \* el: the events of sel.select still to be handled
    cur,                \* el: the socket _handle_client is handling
    acc,                \* el: the socket _accept has accepted
    accRead,            \* el: what _accept read from the clipboard (ok, txt)
    eltxt,              \* el: the text _on_text_from_client was called with
    elecho,             \* el: whether that text's frame was sent as an echo
    bcast,              \* el: the call of _broadcast under way: the payload, the
                        \* excluded socket, who calls (via), the snapshot, the
                        \* targets still to send to, those sent to and those
                        \* that failed, the frames each had before (mark)
    drop,               \* el: the call of _drop_client under way: the socket,
                        \* the reason, where the caller goes on
    wtxt,               \* w: the text the watcher has read, and its origin
    peer,               \* each peer: "idle", "up", "fin" (closed) or "rst" (reset)
    backlog,            \* the connections waiting in the listen queue
    netIn,              \* the bytes of each peer that arrived and are not yet read
    plan,               \* the bytes each peer still means to send
    stream,             \* all the bytes each peer means to send, from its start
    tags,               \* for each frame in flight sent whole: whether an echo
    stalled,            \* the peers that stopped reading: a send to them fails
    outbox,             \* the frames sent to each connection, in order
    applied,            \* the calls of write_clipboard_text: the sender, the text
    enqueued,           \* the texts the watcher queued, with the origin of each
    dropLog,            \* the connections dropped or skipped, with the reason
    nCopies,            \* the number of clipboard changes made by the user
    nCalls,             \* the number of calls of shutdown by the other thread
    returned            \* the threads whose call of shutdown has returned

regVars == <<clients, rbuf, selReg, sockOpen>>
srvVars == <<selClosed, server, stop>>
syncVars == <<to_broadcast, last_polled, last_sent_from_pc, clipboard>>
elVars == <<events, cur, acc, accRead, eltxt, elecho, bcast, drop>>
peerVars == <<peer, backlog, netIn, plan, stream, tags, stalled>>
logVars == <<outbox, applied, enqueued, dropLog>>
cntVars == <<nCopies, nCalls, returned>>

vars == <<clients, rbuf, selReg, selClosed, server, sockOpen, stop, lock,
          to_broadcast, last_polled, last_sent_from_pc, clipboard, pc, events,
          cur, acc, accRead, eltxt, elecho, bcast, drop, wtxt, peer, backlog, netIn, plan,
          stream, tags, stalled, outbox, applied, enqueued, dropLog, nCopies,
          nCalls, returned>>

None == <<>>
Some(t) == <<t>>

\* No broadcast is under way, no connection is being dropped.
NoBcast ==
    [snap |-> <<>>, targets |-> <<>>, payload |-> <<>>, exclude |-> Server,
     via |-> "none", echo |-> FALSE, sent |-> {}, failed |-> {},
     mark |-> [c \in Conns |-> 0]]

NoDrop == [sock |-> Server, why |-> "none", ret |-> "dispatch"]

\* BridgeServer.__init__ and start, up to the call of _serve_loop: the server
\* listens, the watcher thread has been started, nobody is connected.
InitWith(clipTexts) ==
    /\ clients = <<>>
    /\ rbuf = [c \in Conns |-> <<>>]
    /\ selReg = {Server}
    /\ selClosed = FALSE
    /\ server = "listening"
    /\ sockOpen = {}
    /\ stop = FALSE
    /\ lock = "free"
    /\ to_broadcast = <<>>
    /\ last_polled = None
    /\ last_sent_from_pc = None
    /\ \E t \in clipTexts :
          clipboard = [text |-> t, origin |-> "local", seen |-> FALSE]
    /\ pc = [t \in Threads |->
                IF t = "el" THEN "loop" ELSE IF t = "w" THEN "w_loop" ELSE "idle"]
    /\ events = <<>>
    /\ cur = Server
    /\ acc = Server
    /\ accRead = [ok |-> FALSE, text |-> <<>>]
    /\ eltxt = <<>>
    /\ elecho = FALSE
    /\ bcast = NoBcast
    /\ drop = NoDrop
    /\ wtxt = [text |-> <<>>, origin |-> "local"]
    /\ peer = [c \in Conns |-> "idle"]
    /\ backlog = <<>>
    /\ netIn = [c \in Conns |-> <<>>]
    /\ plan = [c \in Conns |-> <<>>]
    /\ stream = [c \in Conns |-> <<>>]
    /\ tags = [c \in Conns |-> <<>>]
    /\ stalled = {}
    /\ outbox = [c \in Conns |-> <<>>]
    /\ applied = <<>>
    /\ enqueued = <<>>
    /\ dropLog = {}
    /\ nCopies = 0
    /\ nCalls = 0
    /\ returned = {}

\* ------------------------------------------------------------ the clipboard
\* read_clipboard_text when a tool answers: the clipboard's text as Python
\* reads the tool's output.
ReadText == UniversalNewlines(clipboard.text)

\* write_clipboard_text(text): the clipboard after it, ok telling whether a
\* tool took the text, echo whether the text came as an echo.
Written(text, ok, echo) ==
    IF ok
    THEN [text |-> text, origin |-> IF echo THEN "echo" ELSE "peer", seen |-> FALSE]
    ELSE clipboard

\* _accept pushing whatever a successful read returned, the empty text too.
InitialPushAlways(read) == read.ok

\* _accept, line 173: whether the text read is pushed to the new connection.
InitialPush(read) == read.ok /\ read.text # <<>>

\* _handle_client keeping the last chunk only, not the bytes buffered before.
ExtendReplace(buf, chunk) == chunk

\* _handle_client, line 203: state.rbuf.extend(chunk).
Extend(buf, chunk) == buf \o chunk

\* ------------------------------------------------------------ the registry
\* sendall on the socket raises: the socket is closed, the peer does not read
\* (the send would block), the connection was reset, or the peer had closed
\* and has answered an earlier send with a reset (the pipe is broken).
SendFails(c) == c \notin sockOpen \/ c \in stalled \/ peer[c] \in {"rst", "pipe"}

\* The peer after a send that succeeded: one that had closed its end for good
\* answers with a reset, one that had only stopped sending goes on reading.
AfterSend(c) == IF peer[c] = "fin" THEN {"fin", "pipe"} ELSE {peer[c]}

\* _broadcast sending to the excluded socket as well.
SendTargetsAll(targets, exclude) == targets

\* _broadcast, lines 260-262: the sockets of the snapshot the loop sends to.
SendTargets(targets, exclude) == SelectSeq(targets, LAMBDA c : c # exclude)

\* _broadcast giving up at the first send that fails.
AfterFailureStop(rest) == <<>>

\* _broadcast, lines 266-271: after a send that failed and the drop of the
\* target, the loop goes on with the rest of the snapshot.
AfterFailure(rest) == rest

\* ------------------------------------------------------------ the event loop
Goto(t, where) == pc' = [pc EXCEPT ![t] = where]

\* The call of _drop_client(sock); why is the reason, for the log, ret where
\* the caller goes on after it.
CallDrop(sock, why, ret) ==
    /\ drop' = [sock |-> sock, why |-> why, ret |-> ret]
    /\ Goto("el", "drop_pop")

\* All the orders in which a set can be listed.
Orderings(S) ==
    {o \in [1..Cardinality(S) -> S] : \A i, j \in 1..Cardinality(S) : o[i] = o[j] => i = j}

\* The registered file objects select finds readable: the listening socket
\* with a connection waiting, a socket with bytes, an end of stream or a reset.
Ready ==
    {f \in selReg : IF f = Server THEN backlog # <<>>
                    ELSE netIn[f] # <<>> \/ peer[f] \in {"fin", "rst", "pipe"}}

\* A test of the stop flag that never finds it set.
StopIsSetNever == FALSE

\* self._stop.is_set(), the test of both loops (lines 153 and 293).
StopIsSet == stop

\* _serve_loop, line 153: the test of the stop flag.  When the loop ends,
\* start goes on to shutdown.
ELLoop ==
    /\ pc["el"] = "loop"
    /\ Goto("el", IF StopIsSet THEN "sd_stop" ELSE "select")
    /\ UNCHANGED <<regVars, srvVars, syncVars, elVars, peerVars, logVars,
                   cntVars, lock, wtxt>>

\* _serve_loop, line 154: sel.select returns, with the registered file objects
\* that are readable or, after the timeout, with none.  Called on a closed
\* selector it raises, and start goes on to shutdown; a selector closed while
\* the call waits has no file object left to report.
ELSelect ==
    /\ pc["el"] = "select"
    /\ \/ /\ selClosed
          /\ events' = <<>>
          /\ Goto("el", "sd_stop")
       \/ /\ \E o \in Orderings(Ready) : events' = o
          /\ Goto("el", "dispatch")
    /\ UNCHANGED <<regVars, srvVars, syncVars, peerVars, logVars, cntVars, lock,
                   cur, acc, accRead, eltxt, elecho, bcast, drop, wtxt>>

\* _serve_loop, lines 155-160: the next event of the batch, the test of its
\* file object against self.server, or _broadcast_pending after the batch.
ELDispatch ==
    /\ pc["el"] = "dispatch"
    /\ IF events = <<>>
       THEN /\ Goto("el", "pending")
            /\ UNCHANGED <<events, cur>>
       ELSE /\ events' = Tail(events)
            /\ IF Head(events) = Server /\ server = "listening"
               THEN Goto("el", "accept") /\ cur' = cur
               ELSE Goto("el", "handle") /\ cur' = Head(events)
    /\ UNCHANGED <<regVars, srvVars, syncVars, peerVars, logVars, cntVars, lock,
                   acc, accRead, eltxt, elecho, bcast, drop, wtxt>>

\* _accept, lines 163-167: the assertion, accept, setblocking, sel.register.  An
\* error (self.server is None, nothing to accept, the selector closed) leaves
\* _serve_loop.
ELAccept ==
    /\ pc["el"] = "accept"
    /\ IF server = "None" \/ backlog = <<>>
       THEN /\ Goto("el", "sd_stop")
            /\ UNCHANGED <<backlog, sockOpen, selReg, acc>>
       ELSE /\ backlog' = Tail(backlog)
            /\ sockOpen' = sockOpen \cup {Head(backlog)}
            /\ IF selClosed
               THEN /\ Goto("el", "sd_stop")
                    /\ UNCHANGED <<selReg, acc>>
               ELSE /\ selReg' = selReg \cup {Head(backlog)}
                    /\ acc' = Head(backlog)
                    /\ Goto("el", "accept_reg")
    /\ UNCHANGED <<srvVars, syncVars, logVars, cntVars, clients, rbuf, lock,
                   events, cur, accRead, eltxt, elecho, bcast, drop, wtxt, peer,
                   netIn, plan, stream, tags, stalled>>

\* _accept, lines 168-169: the new state enters the registry, under the lock.
ELAcceptReg ==
    /\ pc["el"] = "accept_reg"
    /\ lock = "free"
    /\ clients' = IF acc \in SeqToSet(clients) THEN clients ELSE Append(clients, acc)
    /\ rbuf' = [rbuf EXCEPT ![acc] = <<>>]
    /\ Goto("el", "accept_read")
    /\ UNCHANGED <<srvVars, syncVars, elVars, peerVars, logVars, cntVars,
                   selReg, sockOpen, lock, wtxt>>

\* _accept, line 172: the clipboard is read.
ELAcceptRead ==
    /\ pc["el"] = "accept_read"
    /\ \E ok \in BOOLEAN :
          accRead' = [ok |-> ok, text |-> IF ok THEN ReadText ELSE <<>>]
    /\ Goto("el", "accept_send")
    /\ UNCHANGED <<regVars, srvVars, syncVars, peerVars, logVars, cntVars, lock,
                   events, cur, acc, eltxt, elecho, bcast, drop, wtxt>>

\* _accept, lines 173-182: the initial push.  frame_text raising and sendall
\* raising both end in the call of _drop_client.
ELAcceptSend ==
    /\ pc["el"] = "accept_send"
    /\ LET push == InitialPush(accRead)
           f == frame_text(accRead.text)
       IN  IF push /\ (~f.ok \/ SendFails(acc))
           THEN /\ CallDrop(acc, "init_send", "dispatch")
                /\ UNCHANGED <<outbox, peer>>
           ELSE IF push
           THEN /\ outbox' = [outbox EXCEPT ![acc] =
                                Append(@, [via |-> "init", src |-> Server,
                                           bytes |-> f.bytes, echo |-> FALSE])]
                /\ \E p \in AfterSend(acc) : peer' = [peer EXCEPT ![acc] = p]
                /\ Goto("el", "dispatch")
                /\ UNCHANGED drop
           ELSE /\ Goto("el", "dispatch")
                /\ UNCHANGED <<outbox, peer, drop>>
    /\ UNCHANGED <<regVars, srvVars, syncVars, cntVars, lock, events, cur, acc,
                   accRead, eltxt, elecho, bcast, wtxt, backlog, netIn, plan,
                   stream, tags, stalled, applied, enqueued, dropLog>>

\* _drop_client, lines 243-244: the socket is popped from the registry, under
\* the lock; a socket that is not there is no error.
ELDropPop ==
    /\ pc["el"] = "drop_pop"
    /\ lock = "free"
    /\ clients' = RemoveFrom(clients, drop.sock)
    /\ Goto("el", "drop_close")
    /\ UNCHANGED <<srvVars, syncVars, elVars, peerVars, logVars, cntVars, rbuf,
                   selReg, sockOpen, lock, wtxt>>

\* _drop_client, lines 245-254: the socket is unregistered from the selector
\* and closed, an error of either ignored; the caller goes on.
ELDropClose ==
    /\ pc["el"] = "drop_close"
    /\ selReg' = selReg \ {drop.sock}
    /\ sockOpen' = sockOpen \ {drop.sock}
    /\ dropLog' = dropLog \cup {<<drop.sock, drop.why>>}
    /\ Goto("el", drop.ret)
    /\ drop' = NoDrop
    /\ UNCHANGED <<srvVars, syncVars, peerVars, cntVars, clients, rbuf, lock,
                   events, cur, acc, accRead, eltxt, elecho, bcast, wtxt,
                   outbox, applied, enqueued>>

\* A look-up that finds a state for every socket.
HasStateAlways(c) == TRUE

\* _handle_client, lines 185-186: self.clients.get(sock) finds a state.
HasState(c) == c \in SeqToSet(clients)

\* _handle_client, lines 185-188: the look-up in the registry, without the
\* lock; a socket with no state is dropped.
ELHandle ==
    /\ pc["el"] = "handle"
    /\ IF ~HasState(cur)
       THEN CallDrop(cur, "no_state", "dispatch")
       ELSE Goto("el", "recv") /\ UNCHANGED drop
    /\ UNCHANGED <<regVars, srvVars, syncVars, peerVars, logVars, cntVars, lock,
                   events, cur, acc, accRead, eltxt, elecho, bcast, wtxt>>

\* _handle_client, lines 189-205: recv.  The bytes that arrived are returned
\* before the peer's close or reset is seen.
ELRecv ==
    /\ pc["el"] = "recv"
    /\ IF cur \notin sockOpen
       THEN \* recv raises on a closed socket
            /\ CallDrop(cur, "recv_error", "dispatch")
            /\ UNCHANGED <<rbuf, netIn>>
       ELSE IF netIn[cur] # <<>>
       THEN LET n == Min(RECV_SIZE, Len(netIn[cur]))
            IN  /\ netIn' = [netIn EXCEPT ![cur] = SubSeq(@, n + 1, Len(@))]
                /\ rbuf' = [rbuf EXCEPT ![cur] = Extend(@, SubSeq(netIn[cur], 1, n))]
                /\ Goto("el", "frames")
                /\ UNCHANGED drop
       ELSE IF peer[cur] = "rst"
       THEN \* recv raises ConnectionResetError
            /\ CallDrop(cur, "recv_error", "dispatch")
            /\ UNCHANGED <<rbuf, netIn>>
       ELSE IF peer[cur] \in {"fin", "pipe"}
       THEN \* recv returns no bytes: the peer closed
            /\ CallDrop(cur, "closed", "dispatch")
            /\ UNCHANGED <<rbuf, netIn>>
       ELSE \* BlockingIOError
            /\ Goto("el", "dispatch")
            /\ UNCHANGED <<rbuf, netIn, drop>>
    /\ UNCHANGED <<srvVars, syncVars, logVars, cntVars, clients, selReg,
                   sockOpen, lock, events, cur, acc, accRead, eltxt, elecho,
                   bcast, wtxt, peer, backlog, plan, stream, tags, stalled>>

\* _process_frames: one pass of its loop.
ELFrames ==
    /\ pc["el"] = "frames"
    /\ LET r == FrameStep(rbuf[cur])
       IN  IF r.kind = "wait"
           THEN /\ Goto("el", "dispatch")
                /\ UNCHANGED <<rbuf, eltxt, elecho, tags, dropLog, drop>>
           ELSE IF r.kind \in {"bad_type", "bad_length"}
           THEN /\ CallDrop(cur, r.kind, "dispatch")
                /\ UNCHANGED <<rbuf, eltxt, elecho, tags, dropLog>>
           ELSE /\ rbuf' = [rbuf EXCEPT ![cur] = r.rest]
                /\ tags' = [tags EXCEPT ![cur] = IF @ = <<>> THEN @ ELSE Tail(@)]
                /\ IF r.kind = "skip"
                   THEN /\ dropLog' = dropLog \cup {<<cur, "skip">>}
                        /\ Goto("el", "frames")
                        /\ UNCHANGED <<eltxt, elecho>>
                   ELSE /\ eltxt' = r.text
                        /\ elecho' = (tags[cur] # <<>> /\ Head(tags[cur]))
                        /\ Goto("el", "on_text")
                        /\ UNCHANGED dropLog
                /\ UNCHANGED drop
    /\ UNCHANGED <<srvVars, syncVars, cntVars, clients, selReg, sockOpen, lock,
                   events, cur, acc, accRead, bcast, wtxt, peer, backlog, netIn,
                   plan, stream, stalled, outbox, applied, enqueued>>

\* _on_text_from_client, line 233: the assignment of _last_sent_from_pc.
ELOnText ==
    /\ pc["el"] = "on_text"
    /\ last_sent_from_pc' = Some(eltxt)
    /\ Goto("el", "on_text_apply")
    /\ UNCHANGED <<regVars, srvVars, elVars, peerVars, logVars, cntVars, lock,
                   to_broadcast, last_polled, clipboard, wtxt>>

\* _on_text_from_client, lines 234-240: the clipboard write, and the frame
\* that _broadcast is called with, the sender excluded.
ELOnTextApply ==
    /\ pc["el"] = "on_text_apply"
    /\ \E wok \in BOOLEAN : clipboard' = Written(eltxt, wok, elecho)
    /\ applied' = Append(applied, [src |-> cur, text |-> eltxt])
    /\ LET f == frame_text(eltxt)
       IN  IF f.ok
           THEN /\ bcast' = [NoBcast EXCEPT !.payload = f.bytes, !.exclude = cur,
                                            !.via = "relay", !.echo = elecho]
                /\ Goto("el", "bcast_snap")
           ELSE /\ Goto("el", "sd_stop")
                /\ UNCHANGED bcast
    /\ UNCHANGED <<regVars, srvVars, peerVars, cntVars, lock, to_broadcast,
                   last_polled, last_sent_from_pc, events, cur, acc, accRead,
                   eltxt, elecho, drop, wtxt, outbox, enqueued, dropLog>>

\* _broadcast, lines 257-258: the snapshot of the registry, under the lock.
ELBcastSnap ==
    /\ pc["el"] = "bcast_snap"
    /\ lock = "free"
    /\ bcast' = [bcast EXCEPT !.snap = clients,
                              !.targets = SendTargets(clients, bcast.exclude),
                              !.mark = [c \in Conns |-> Len(outbox[c])]]
    /\ Goto("el", "bcast_send")
    /\ UNCHANGED <<regVars, srvVars, syncVars, peerVars, logVars, cntVars, lock,
                   events, cur, acc, accRead, eltxt, elecho, drop, wtxt>>

\* _broadcast, lines 260-273: one pass of the loop over the snapshot, the send
\* to one target or the call of _drop_client for it; after the last target
\* the caller goes on.
ELBcastSend ==
    /\ pc["el"] = "bcast_send"
    /\ IF bcast.targets = <<>>
       THEN /\ Goto("el", IF bcast.via = "relay" THEN "frames" ELSE "pending")
            /\ bcast' = NoBcast
            /\ UNCHANGED <<outbox, peer, drop>>
       ELSE LET c == Head(bcast.targets)
            IN  IF SendFails(c)
                THEN /\ CallDrop(c, "send", "bcast_send")
                     /\ bcast' = [bcast EXCEPT !.targets = AfterFailure(Tail(@)),
                                               !.failed = @ \cup {c}]
                     /\ UNCHANGED <<outbox, peer>>
                ELSE /\ outbox' = [outbox EXCEPT ![c] =
                                     Append(@, [via |-> bcast.via, src |-> bcast.exclude,
                                                bytes |-> bcast.payload,
                                                echo |-> bcast.echo])]
                     /\ \E p \in AfterSend(c) : peer' = [peer EXCEPT ![c] = p]
                     /\ bcast' = [bcast EXCEPT !.targets = Tail(@),
                                               !.sent = @ \cup {c}]
                     /\ Goto("el", "bcast_send")
                     /\ UNCHANGED drop
    /\ UNCHANGED <<regVars, srvVars, syncVars, cntVars, lock, events, cur, acc,
                   accRead, eltxt, elecho, wtxt, backlog, netIn, plan, stream,
                   tags, stalled, applied, enqueued, dropLog>>

\* to_broadcast.get_nowait() taking the newest frame of the queue.
QueueGetLifo(q) == [item |-> q[Len(q)], rest |-> SubSeq(q, 1, Len(q) - 1)]

\* to_broadcast.get_nowait() on a queue that is not empty (line 279): the frame
\* taken and the queue left.
QueueGet(q) == [item |-> Head(q), rest |-> Tail(q)]

\* _broadcast_pending, lines 277-282: one pass of its loop, up to the call of
\* _broadcast with the frame taken, nobody excluded.
ELPending ==
    /\ pc["el"] = "pending"
    /\ IF to_broadcast = <<>>
       THEN /\ Goto("el", "loop")
            /\ UNCHANGED <<to_broadcast, bcast>>
       ELSE /\ to_broadcast' = QueueGet(to_broadcast).rest
            /\ bcast' = [NoBcast EXCEPT !.payload = QueueGet(to_broadcast).item,
                                        !.via = "queue"]
            /\ Goto("el", "bcast_snap")
    /\ UNCHANGED <<regVars, srvVars, peerVars, logVars, cntVars, lock,
                   last_polled, last_sent_from_pc, clipboard, events, cur, acc,
                   accRead, eltxt, elecho, drop, wtxt>>

\* ------------------------------------------------------------ shutdown
\* shutdown is run by "el" (the finally clause of start) and by "ext".

\* shutdown, line 131: the stop flag is set.
SdStop(t) ==
    /\ pc[t] = "sd_stop"
    /\ stop' = TRUE
    /\ Goto(t, "sd_sel")
    /\ UNCHANGED <<regVars, syncVars, elVars, peerVars, logVars, cntVars,
                   selClosed, server, lock, wtxt>>

\* shutdown, lines 132-135: the selector is closed, which unregisters every
\* file object.
SdSelClose(t) ==
    /\ pc[t] = "sd_sel"
    /\ selClosed' = TRUE
    /\ selReg' = {}
    /\ Goto(t, "sd_lock")
    /\ UNCHANGED <<syncVars, elVars, peerVars, logVars, cntVars, clients, rbuf,
                   server, sockOpen, stop, lock, wtxt>>

\* shutdown, line 136: the lock is taken.
SdLock(t) ==
    /\ pc[t] = "sd_lock"
    /\ lock = "free"
    /\ lock' = t
    /\ Goto(t, "sd_close")
    /\ UNCHANGED <<regVars, srvVars, syncVars, elVars, peerVars, logVars,
                   cntVars, wtxt>>

\* shutdown, lines 137-142: every registered socket is closed, the lock held.
SdClose(t) ==
    /\ pc[t] = "sd_close"
    /\ sockOpen' = sockOpen \ SeqToSet(clients)
    /\ Goto(t, "sd_clear")
    /\ UNCHANGED <<srvVars, syncVars, elVars, peerVars, logVars, cntVars,
                   clients, rbuf, selReg, lock, wtxt>>

\* shutdown, line 143: the registry is cleared; the lock is released.
SdClear(t) ==
    /\ pc[t] = "sd_clear"
    /\ clients' = <<>>
    /\ lock' = "free"
    /\ Goto(t, "sd_server")
    /\ UNCHANGED <<srvVars, syncVars, elVars, peerVars, logVars, cntVars, rbuf,
                   selReg, sockOpen, wtxt>>

\* shutdown, lines 144-150: the listening socket is closed and cleared; the
\* call returns.  Between the close and the assignment an accept raises, as
\* the assertion of _accept does after it.
SdServer(t) ==
    /\ pc[t] = "sd_server"
    /\ server' = "None"
    /\ returned' = returned \cup {t}
    /\ Goto(t, IF t = "el" THEN "done" ELSE "idle")
    /\ UNCHANGED <<regVars, syncVars, elVars, peerVars, logVars, selClosed,
                   stop, lock, wtxt, nCopies, nCalls>>

\* Another thread calls shutdown.
ExtCall ==
    /\ pc["ext"] = "idle"
    /\ nCalls < MaxShutdownCalls
    /\ nCalls' = nCalls + 1
    /\ Goto("ext", "sd_stop")
    /\ UNCHANGED <<regVars, srvVars, syncVars, elVars, peerVars, logVars, lock,
                   wtxt, nCopies, returned>>

\* ------------------------------------------------------------ the watcher
\* _clipboard_watch_loop, line 293: the test of the stop flag.
WLoop ==
    /\ pc["w"] = "w_loop"
    /\ Goto("w", IF StopIsSet THEN "w_done" ELSE "w_read")
    /\ UNCHANGED <<regVars, srvVars, syncVars, elVars, peerVars, logVars,
                   cntVars, lock, wtxt>>

\* line 294: the clipboard is read; a read that is not ok ends the tick.
WRead ==
    /\ pc["w"] = "w_read"
    /\ \E ok \in BOOLEAN :
          IF ok
          THEN /\ wtxt' = [text |-> ReadText, origin |-> clipboard.origin]
               /\ Goto("w", "w_cmp_polled")
          ELSE /\ wtxt' = wtxt
               /\ Goto("w", "w_loop")
    /\ UNCHANGED <<regVars, srvVars, syncVars, elVars, peerVars, logVars,
                   cntVars, lock>>

\* line 299: the comparison with _last_polled.
WCmpPolled ==
    /\ pc["w"] = "w_cmp_polled"
    /\ Goto("w", IF last_polled = None \/ Some(wtxt.text) # last_polled
                 THEN "w_cmp_sent" ELSE "w_loop")
    /\ UNCHANGED <<regVars, srvVars, syncVars, elVars, peerVars, logVars,
                   cntVars, lock, wtxt>>

\* lines 300-301: the comparison with _last_sent_from_pc, and with "".
WCmpSent ==
    /\ pc["w"] = "w_cmp_sent"
    /\ Goto("w", IF Some(wtxt.text) # last_sent_from_pc /\ wtxt.text # <<>>
                 THEN "w_queue" ELSE "w_set_polled")
    /\ UNCHANGED <<regVars, srvVars, syncVars, elVars, peerVars, logVars,
                   cntVars, lock, wtxt>>

\* queue_from_pc, line 288: _last_sent_from_pc is assigned.
WQueue ==
    /\ pc["w"] = "w_queue"
    /\ last_sent_from_pc' = Some(wtxt.text)
    /\ Goto("w", "w_put")
    /\ UNCHANGED <<regVars, srvVars, elVars, peerVars, logVars, cntVars, lock,
                   to_broadcast, last_polled, clipboard, wtxt>>

\* queue_from_pc, line 289: the frame is queued; when frame_text raises, the
\* error ends the watcher thread.
WPut ==
    /\ pc["w"] = "w_put"
    /\ LET f == frame_text(wtxt.text)
       IN  IF f.ok
           THEN /\ to_broadcast' = Append(to_broadcast, f.bytes)
                /\ enqueued' = Append(enqueued, wtxt)
                /\ Goto("w", "w_set_polled")
           ELSE /\ Goto("w", "w_crashed")
                /\ UNCHANGED <<to_broadcast, enqueued>>
    /\ UNCHANGED <<regVars, srvVars, elVars, peerVars, cntVars, lock,
                   last_polled, last_sent_from_pc, clipboard, wtxt, outbox,
                   applied, dropLog>>

\* line 303: _last_polled is assigned; then the sleep.
WSetPolled ==
    /\ pc["w"] = "w_set_polled"
    /\ last_polled' = Some(wtxt.text)
    /\ Goto("w", "w_loop")
    /\ UNCHANGED <<regVars, srvVars, elVars, peerVars, logVars, cntVars, lock,
                   to_broadcast, last_sent_from_pc, clipboard, wtxt>>

\* ------------------------------------------------------------ the environment
\* The connection as the server's side sees it: waiting to be accepted, or
\* accepted and open.
Alive(c) == c \in sockOpen \/ c \in SeqToSet(backlog)

\* The server sees what its peers do when it selects, reads or sends, and what
\* the user does when it reads the clipboard.  An event of the environment is
\* placed right before the step that can first see it: the steps in between
\* cannot tell when it happened.
AtSelect == pc["el"] = "select"
AtSend == pc["el"] \in {"accept_send", "bcast_snap"}
AtRead == pc["w"] = "w_read" \/ pc["el"] = "accept_read"

\* A peer connects, meaning to send the bytes s.  Connections are made in the
\* order of their numbers.
PeerConnect(c, s) ==
    /\ AtSelect
    /\ peer[c] = "idle"
    /\ \A d \in Conns : d < c => peer[d] # "idle"
    /\ server = "listening"
    /\ peer' = [peer EXCEPT ![c] = "up"]
    /\ backlog' = Append(backlog, c)
    /\ plan' = [plan EXCEPT ![c] = s]
    /\ stream' = [stream EXCEPT ![c] = s]
    /\ UNCHANGED <<regVars, srvVars, syncVars, elVars, logVars, cntVars, lock,
                   pc, wtxt, netIn, tags, stalled>>

\* The length of the frame that starts the bytes, which hold it whole.
FrameLen(b) == 5 + Unpack32(SubSeq(b, 2, 5))

\* The next frame of a peer's stream arrives whole.  It is an echo when the
\* peer has received the same frame from the watcher's queue.
PeerSendFrame(c) ==
    /\ AtSelect
    /\ peer[c] = "up"
    /\ Alive(c)
    /\ Len(plan[c]) >= 5
    /\ Len(plan[c]) >= FrameLen(plan[c])
    /\ LET n == FrameLen(plan[c])
           f == SubSeq(plan[c], 1, n)
       IN  /\ netIn' = [netIn EXCEPT ![c] = @ \o f]
           /\ plan' = [plan EXCEPT ![c] = SubSeq(@, n + 1, Len(@))]
           /\ tags' = [tags EXCEPT ![c] =
                         Append(@, \E i \in 1..Len(outbox[c]) :
                                      /\ outbox[c][i].via = "queue"
                                      /\ outbox[c][i].bytes = f)]
    /\ UNCHANGED <<regVars, srvVars, syncVars, elVars, logVars, cntVars, lock,
                   pc, wtxt, peer, backlog, stream, stalled>>

\* The next n bytes of a peer's stream arrive.
PeerSendChunk(c, n) ==
    /\ AtSelect
    /\ peer[c] = "up"
    /\ Alive(c)
    /\ n \in 1..Len(plan[c])
    /\ netIn' = [netIn EXCEPT ![c] = @ \o SubSeq(plan[c], 1, n)]
    /\ plan' = [plan EXCEPT ![c] = SubSeq(@, n + 1, Len(@))]
    /\ UNCHANGED <<regVars, srvVars, syncVars, elVars, logVars, cntVars, lock,
                   pc, wtxt, peer, backlog, stream, tags, stalled>>

\* A peer closes its end ("fin") or the connection is reset ("rst"), at any
\* moment: select is the first to see it, or a send once select has returned.
PeerClose(c, how) ==
    /\ AtSelect \/ AtSend
    /\ peer[c] = "up"
    /\ Alive(c)
    /\ peer' = [peer EXCEPT ![c] = how]
    /\ UNCHANGED <<regVars, srvVars, syncVars, elVars, logVars, cntVars, lock,
                   pc, wtxt, backlog, netIn, plan, stream, tags, stalled>>

\* A peer stops reading: from now on a send to it would block.
PeerStall(c) ==
    /\ AtSend
    /\ peer[c] = "up"
    /\ Alive(c)
    /\ c \notin stalled
    /\ stalled' = stalled \cup {c}
    /\ UNCHANGED <<regVars, srvVars, syncVars, elVars, logVars, cntVars, lock,
                   pc, wtxt, peer, backlog, netIn, plan, stream, tags>>

\* The local user copies a text: the OS clipboard changes.
UserCopy(t) ==
    /\ AtRead
    /\ nCopies < MaxCopies
    /\ t # clipboard.text
    /\ clipboard' = [text |-> t, origin |-> "local",
                      seen |-> /\ last_polled = Some(ReadText)
                               /\ last_sent_from_pc # Some(UniversalNewlines(t))]
    /\ nCopies' = nCopies + 1
    /\ UNCHANGED <<regVars, srvVars, elVars, peerVars, logVars, lock,
                   to_broadcast, last_polled, last_sent_from_pc, pc, wtxt,
                   nCalls, returned>>

\* ------------------------------------------------------------ specifications
TextA == <<97>>
TextB == <<98>>
FrameA == frame_text(TextA).bytes
FrameB == frame_text(TextB).bytes

ELStep ==
    \/ ELLoop \/ ELSelect \/ ELDispatch \/ ELAccept \/ ELAcceptReg \/ ELAcceptRead
    \/ ELAcceptSend \/ ELDropPop \/ ELDropClose \/ ELHandle \/ ELRecv
    \/ ELFrames \/ ELOnText \/ ELOnTextApply \/ ELBcastSnap \/ ELBcastSend
    \/ ELPending

WStep == WLoop \/ WRead \/ WCmpPolled \/ WCmpSent \/ WQueue \/ WPut \/ WSetPolled

\* A step of shutdown run by the thread t.
SdStep(t) ==
    \/ SdStop(t) \/ SdSelClose(t) \/ SdLock(t) \/ SdClose(t) \/ SdClear(t)
    \/ SdServer(t)

\* The server and its watcher, a peer that sends whole frames and one that
\* sends nothing and may stop reading, a user who copies.
SyncConns == {1, 2}
SyncStreams(c) == IF c = 1 THEN {FrameA \o FrameB} ELSE {<<>>}
SyncTexts == {TextA, TextB}

Init == InitWith({TextA})

Next ==
    \/ ELStep
    \/ WStep
    \/ \E c \in SyncConns : \E s \in SyncStreams(c) : PeerConnect(c, s)
    \/ \E c \in SyncConns : PeerSendFrame(c)
    \/ PeerStall(2)
    \/ \E t \in SyncTexts : UserCopy(t)

Spec == Init /\ [][Next]_vars


\* The server and its watcher, a clipboard that does not change, one peer that
\* sends a frame, peers that stop reading.
FanStreams(c) == IF c = 1 THEN {FrameA} ELSE {<<>>}

InitFan == InitWith({<<>>, TextA, <<BigRun>>})

NextFan ==
    \/ ELStep
    \/ WStep
    \/ \E c \in Conns : \E s \in FanStreams(c) : PeerConnect(c, s)
    \/ \E c \in Conns : PeerSendFrame(c)
    \/ \E c \in Conns : PeerStall(c)

SpecFan == InitFan /\ [][NextFan]_vars

\* The server and its watcher, one peer whose bytes arrive in pieces of any
\* size and who may close or be reset at any moment, another that sends
\* nothing and may be reset at any moment.
CodecConns == {1, 2}
CodecStreams(c) ==
    IF c = 1
    THEN {FrameA \o FrameB,
          <<1, 0, 0, 0, 1, 255>> \o FrameA,
          <<2, 0, 0, 0, 1, 97>>,
          <<1, 0, 16, 0, 1, 97>>,
          FrameA \o <<1, 0, 16, 0, 0>>,
          <<1, 0, 0, 0, 0>> \o <<1, 0, 0, 0, 2, 195, 169>>}
    ELSE {<<>>}

InitCodec == InitWith({<<>>})

NextCodec ==
    \/ ELStep
    \/ WStep
    \/ \E c \in CodecConns : \E s \in CodecStreams(c) : PeerConnect(c, s)
    \/ \E c \in CodecConns, n \in 1..12 : PeerSendChunk(c, n)
    \/ \E how \in {"fin", "rst"} : PeerClose(1, how)
    \/ PeerClose(2, "rst")

SpecCodec == InitCodec /\ [][NextCodec]_vars

\* The server, its watcher and another thread that calls shutdown, a peer that
\* sends a frame and may close its end, and one that sends nothing.
StopConns == {1, 2}

NextStop ==
    \/ ELStep
    \/ WStep
    \/ \E t \in {"el", "ext"} : SdStep(t)
    \/ ExtCall
    \/ \E c \in StopConns : \E s \in FanStreams(c) : PeerConnect(c, s)
    \/ \E c \in StopConns : PeerSendFrame(c)
    \/ PeerClose(1, "fin")

SpecStop == Init /\ [][NextStop]_vars

\* The server and its watcher, a user who copies, a peer that sends a frame and
\* one that sends nothing and may stop reading; a thread that can take a step
\* takes it in the end.
LiveConns == {1, 2}

NextLive ==
    \/ ELStep
    \/ WStep
    \/ \E c \in LiveConns : \E s \in FanStreams(c) : PeerConnect(c, s)
    \/ \E c \in LiveConns : PeerSendFrame(c)
    \/ PeerStall(2)
    \/ \E t \in SyncTexts : UserCopy(t)

SpecLive ==
    /\ Init
    /\ [][NextLive]_vars
    /\ WF_vars(ELStep)
    /\ WF_vars(WStep)

HaltConns == {1}

\* The server, its watcher and another thread that calls shutdown, one peer
\* that sends a frame; a thread that can take a step takes it in the end.
NextHalt ==
    \/ ELStep
    \/ WStep
    \/ \E t \in {"el", "ext"} : SdStep(t)
    \/ ExtCall
    \/ \E c \in HaltConns : PeerConnect(c, FrameA)
    \/ \E c \in HaltConns : PeerSendFrame(c)

SpecHalt ==
    /\ Init
    /\ [][NextHalt]_vars
    /\ WF_vars(ELStep)
    /\ WF_vars(WStep)
    /\ \A t \in {"el", "ext"} : WF_vars(SdStep(t))

\* The server and its watcher, a peer that sends two frames and one that sends a
\* frame and may close its end; either may stop reading, and both can be ready
\* in one batch of events.
StaleConns == {1, 2}
StaleStreams(c) == IF c = 1 THEN {FrameA \o FrameB} ELSE {FrameB}

NextStale ==
    \/ ELStep
    \/ WStep
    \/ \E c \in StaleConns : \E s \in StaleStreams(c) : PeerConnect(c, s)
    \/ \E c \in StaleConns : PeerSendFrame(c)
    \/ \E c \in StaleConns : PeerStall(c)
    \/ PeerClose(2, "fin")

SpecStale == InitCodec /\ [][NextStale]_vars

\* ------------------------------------------------------------ properties
Registered == SeqToSet(clients)

\* The texts write_clipboard_text was called with for the frames of c, in order.
TextsFrom(c) ==
    LET s == SelectSeq(applied, LAMBDA e : e.src = c)
    IN  [i \in 1..Len(s) |-> s[i].text]

\* The bytes of c's stream that recv has returned so far.
Received(c) == SubSeq(stream[c], 1, Len(stream[c]) - Len(plan[c]) - Len(netIn[c]))

\* The event loop is in a call of _drop_client.
InDrop == pc["el"] \in {"drop_pop", "drop_close"}

\* The event loop is in _process_frames for c: in its loop, in the call of
\* _on_text_from_client or in the relay of a frame of c.
InFrames(c) ==
    /\ cur = c
    /\ \/ pc["el"] \in {"frames", "on_text", "on_text_apply"}
       \/ pc["el"] \in {"bcast_snap", "bcast_send"} /\ bcast.via = "relay"
       \/ InDrop /\ bcast.via = "relay"

\* The event loop is neither in _process_frames for c nor dropping c.
AtRest(c) == ~InFrames(c) /\ ~(InDrop /\ drop.sock = c)

\* The event loop takes a step.
ELMoves == pc'["el"] # pc["el"] \/ bcast' # bcast \/ rbuf' # rbuf

\* A send to c raises, told from the state of the socket and of its peer.
SendRaises(c) == c \notin sockOpen \/ c \in stalled \/ peer[c] \in {"rst", "pipe"}

\* The entry is a frame whose one payload decodes to the text.
IsFrameFor(bytes, text) ==
    FrameStep(bytes) = [kind |-> "text", text |-> text, rest |-> <<>>]

\* The sequence grew by exactly one frame, of these bytes.
OneMore(before, after, bytes) ==
    /\ Len(after) = Len(before) + 1
    /\ SubSeq(after, 1, Len(before)) = before
    /\ after[Len(after)].bytes = bytes

\* No socket is listed twice.
NoDup(s) == \A i, j \in 1..Len(s) : s[i] = s[j] => i = j

\* What a step of the event loop inside _drop_client does: the first takes
\* the socket out of the registry and nothing else, the second takes it out
\* of the selector and closes it, and the caller goes on; neither touches
\* another connection, a buffer, the clipboard, a sent frame or the sync state.
DropStepOk ==
    /\ pc["el"] = "drop_pop" =>
          /\ clients' = RemoveFrom(clients, drop.sock)
          /\ pc'["el"] = "drop_close"
          /\ UNCHANGED <<selReg, sockOpen, drop>>
    /\ pc["el"] = "drop_close" =>
          /\ drop.sock \notin SeqToSet(clients')
          /\ selReg' = selReg \ {drop.sock}
          /\ sockOpen' = sockOpen \ {drop.sock}
          /\ pc'["el"] = drop.ret
          /\ UNCHANGED clients
    /\ UNCHANGED <<rbuf, clipboard, applied, outbox, last_polled, last_sent_from_pc,
                   to_broadcast, stop, selClosed, server, netIn>>

\* The frames sent to a connection are never taken back or changed.
OutboxGrows ==
    \A c \in Conns :
        \/ outbox'[c] = outbox[c]
        \/ /\ Len(outbox'[c]) = Len(outbox[c]) + 1
           /\ SubSeq(outbox'[c], 1, Len(outbox[c])) = outbox[c]

\* The loop of _broadcast has come to the end of its snapshot.
BcastDone == pc["el"] = "bcast_send" /\ bcast.targets = <<>>

\* Since the snapshot of the broadcast under way, the connections it has sent
\* to have one frame more, its payload, and the others have what they had.
OneFrameEach ==
    \A c \in Conns :
        IF c \in bcast.sent
        THEN /\ Len(outbox[c]) = bcast.mark[c] + 1
             /\ outbox[c][Len(outbox[c])].bytes = bcast.payload
             /\ outbox[c][Len(outbox[c])].via = bcast.via
        ELSE Len(outbox[c]) = bcast.mark[c]

\* One pass of the loop of _broadcast over a target: when the send raises the
\* target is sent nothing and _drop_client is called for it, otherwise it is
\* sent the payload once; nobody else is sent anything.
SendStepOk ==
    LET c == Head(bcast.targets)
    IN  /\ \A d \in Conns \ {c} : outbox'[d] = outbox[d]
        /\ IF SendRaises(c)
           THEN /\ outbox'[c] = outbox[c]
                /\ c \in bcast'.failed
                /\ pc'["el"] = "drop_pop"
                /\ drop' = [sock |-> c, why |-> "send", ret |-> "bcast_send"]
           ELSE /\ OneMore(outbox[c], outbox'[c], bcast.payload)
                /\ c \in bcast'.sent
                /\ bcast'.failed = bcast.failed
                /\ pc'["el"] = "bcast_send"

\* _process_frames run on all the bytes at once: the texts decoded, whether
\* the connection is dropped, the bytes left in the buffer.
RECURSIVE ProcessAll(_)
ProcessAll(buf) ==
    LET r == FrameStep(buf)
    IN  IF r.kind = "wait"
        THEN [texts |-> <<>>, dropped |-> FALSE, rest |-> buf]
        ELSE IF r.kind \in {"bad_type", "bad_length"}
        THEN [texts |-> <<>>, dropped |-> TRUE, rest |-> buf]
        ELSE LET q == ProcessAll(r.rest)
             IN  [texts |-> (IF r.kind = "text" THEN <<r.text>> ELSE <<>>) \o q.texts,
                  dropped |-> q.dropped,
                  rest |-> q.rest]

\* ---- C1
\* C1: once the watcher has queued the frame of a local text X and a peer has
\* echoed X back, X is not broadcast again: the echoed frame is relayed to no
\* connection, and the watcher queues no text that an echo put on the
\* clipboard.
C1_EchoNotRebroadcast ==
    /\ \A d \in Conns : \A i \in 1..Len(outbox[d]) :
          ~(outbox[d][i].via = "relay" /\ outbox[d][i].echo)
    /\ \A i \in 1..Len(enqueued) : enqueued[i].origin # "echo"

\* ---- C2
\* C2: when the frame of a text t from connection A is handled, the clipboard
\* write is called with t and _broadcast with the frame of t and A excluded;
\* its snapshot lists every other registered connection once and not A; each
\* of them whose send succeeds is sent the frame, and when the loop ends those
\* have exactly one frame more, the frame of t, and A and everybody else have
\* what they had.
C2_RelayToOthers ==
    /\ [][pc["el"] = "on_text_apply" /\ ELMoves =>
             /\ applied' = Append(applied, [src |-> cur, text |-> eltxt])
             /\ IsFrameFor(stream[cur], eltxt)
             /\ pc'["el"] = "bcast_snap"
             /\ bcast'.payload = stream[cur]
             /\ bcast'.exclude = cur
             /\ outbox' = outbox]_vars
    /\ [][pc["el"] = "bcast_snap" /\ bcast.via = "relay" /\ ELMoves =>
             /\ SeqToSet(bcast'.targets) = Registered \ {cur}
             /\ NoDup(bcast'.targets)
             /\ outbox' = outbox]_vars
    /\ [][pc["el"] = "bcast_send" /\ bcast.via = "relay" /\ ~BcastDone /\ ELMoves =>
             SendStepOk]_vars
    /\ [][OutboxGrows]_vars
    /\ [](BcastDone /\ bcast.via = "relay" =>
             /\ OneFrameEach
             /\ cur \notin bcast.sent
             /\ bcast.sent \cup bcast.failed = SeqToSet(bcast.snap) \ {cur})

\* Connection 1's frame has been applied and relayed to connections 2 and 3,
\* and connection 1 was sent no relayed frame.
C2_Witness ==
    /\ applied = <<[src |-> 1, text |-> TextA]>>
    /\ \A d \in {2, 3} : \E i \in 1..Len(outbox[d]) :
          outbox[d][i].via = "relay" /\ outbox[d][i].bytes = FrameA
    /\ \A i \in 1..Len(outbox[1]) : outbox[1][i].via # "relay"
    /\ pc["el"] = "loop"

\* ---- C3
\* C3: in every interleaving of the event loop and the watcher, a text that a
\* peer's frame put on the clipboard is never queued by the watcher.
C3_PeerTextNeverEnqueued ==
    \A i \in 1..Len(enqueued) : enqueued[i].origin = "local"

\* ---- C4
\* C4: in a broadcast where the send to exactly one target fails, when the
\* loop ends that connection alone is gone from the registry, unregistered and
\* closed, and every other target has been sent the payload exactly once,
\* wherever the failing one stands in the snapshot; nobody else was sent
\* anything.  A target fails exactly when its send raises.
C4_OneFailureOthersServed ==
    /\ [](BcastDone /\ Cardinality(bcast.failed) = 1 =>
             /\ clients = SelectSeq(bcast.snap, LAMBDA c : c \notin bcast.failed)
             /\ bcast.failed \cap sockOpen = {}
             /\ bcast.failed \cap selReg = {}
             /\ bcast.sent = SeqToSet(bcast.snap) \ ({bcast.exclude} \cup bcast.failed)
             /\ OneFrameEach)
    /\ [][pc["el"] = "bcast_send" /\ ~BcastDone /\ ELMoves => SendStepOk]_vars
    /\ [][InDrop /\ drop.why = "send" /\ ELMoves => DropStepOk]_vars
    /\ [][OutboxGrows]_vars

\* One broadcast of the watcher's queue has found connections 1, 2 and 3
\* registered: the send to connection 2, the middle one, failed and dropped it,
\* connections 1 and 3 were sent the frame.
C4_Witness ==
    /\ BcastDone
    /\ bcast.via = "queue"
    /\ bcast.snap = <<1, 2, 3>>
    /\ bcast.failed = {2}
    /\ applied = <<>>
    /\ clients = <<1, 3>>
    /\ <<2, "send">> \in dropLog
    /\ \A i \in 1..Len(outbox[2]) : outbox[2][i].via # "queue"
    /\ \A d \in {1, 3} : \E i \in 1..Len(outbox[d]) : outbox[d][i].via = "queue"

\* ---- C5
\* The buffer starts with a complete header that is bad: a type that is not
\* MSG_TEXT or a length above MAX_BYTES.
BadHeader(buf) ==
    /\ Len(buf) >= 5
    /\ buf[1] # MSG_TEXT \/ Unpack32(SubSeq(buf, 2, 5)) > MAX_BYTES

FramesSent(c, bytes) ==
    Cardinality({i \in 1..Len(outbox[c]) : outbox[c][i].bytes = bytes})

\* C6: the user changes the clipboard from a text the watcher had observed to
\* a text b never sent, b stays and no peer sends a text: no connection is
\* sent the frame of b twice, a connection accepted between the change and
\* the drain of the queue included.
C6_ChangeSentOnce ==
    (clipboard.origin = "local" /\ clipboard.seen /\ applied = <<>>)
        => \A c \in Conns : FramesSent(c, frame_text(ReadText).bytes) <= 1

\* ---- C7
\* C7: whatever the pieces a connection's bytes arrive in, once the bytes read
\* are processed the texts applied, the verdict (dropped for a bad header or
\* kept) and the bytes left in the buffer are those of one pass over all the
\* bytes read.
C7_ChunkingInvariance ==
    \A c \in Conns :
        AtRest(c) =>
            LET r == ProcessAll(Received(c))
            IN  /\ TextsFrom(c) = r.texts
                /\ r.dropped <=> (<<c, "bad_type">> \in dropLog
                                     \/ <<c, "bad_length">> \in dropLog)
                /\ r.dropped => c \notin Registered
                /\ c \in Registered => rbuf[c] = r.rest

\* Connection 1 sends two frames: the first was applied, of the second the
\* header has been read in part, and more is to come.
C7_Witness ==
    /\ stream[1] = FrameA \o FrameB
    /\ TextsFrom(1) = <<TextA>>
    /\ 1 \in Registered
    /\ rbuf[1] = <<1, 0, 0>>
    /\ plan[1] # <<>>
    /\ AtRest(1)

\* ---- C8
C8_PushStep == pc["el"] = "accept_send" /\ ELMoves

\* The push ends in the call of _drop_client for the new connection.
C8_Dropped ==
    /\ pc'["el"] = "drop_pop"
    /\ drop' = [sock |-> acc, why |-> "init_send", ret |-> "dispatch"]
    /\ outbox' = outbox

C8_Pushed ==
    /\ Len(outbox'[acc]) = Len(outbox[acc]) + 1
    /\ SubSeq(outbox'[acc], 1, Len(outbox[acc])) = outbox[acc]
    /\ IsFrameFor(outbox'[acc][Len(outbox'[acc])].bytes, accRead.text)
    /\ pc'["el"] = "dispatch"

C8_Others ==
    /\ \A d \in Conns \ {acc} : outbox'[d] = outbox[d]
    /\ UNCHANGED <<clients, selReg, sockOpen>>
    /\ UNCHANGED <<last_polled, last_sent_from_pc, to_broadcast, clipboard>>

\* C8 as stated: after a connection is accepted, a successful read of a
\* non-empty text t sends exactly one frame of t to the new connection only; a
\* failed read or the empty text sends nothing; a send that would block or
\* fails drops the new connection; _last_polled and _last_sent_from_pc stay.
C8_InitialPushAsStated ==
    /\ [][C8_PushStep =>
             /\ C8_Others
             /\ IF accRead.ok /\ accRead.text # <<>>
                THEN IF SendRaises(acc) THEN C8_Dropped ELSE C8_Pushed
                ELSE outbox' = outbox /\ pc'["el"] = "dispatch"]_vars
    /\ [][InDrop /\ drop.why = "init_send" /\ ELMoves =>
             DropStepOk /\ drop.sock = acc]_vars

\* C8, amended: the frame is sent when t encodes to at most MAX_BYTES bytes; a
\* longer t sends nothing and drops the new connection, as a failing send does.
C8_InitialPush ==
    /\ [][C8_PushStep =>
             /\ C8_Others
             /\ IF accRead.ok /\ accRead.text # <<>>
                THEN IF SendRaises(acc) \/ Utf8Len(accRead.text) > MAX_BYTES
                     THEN C8_Dropped
                     ELSE C8_Pushed
                ELSE outbox' = outbox /\ pc'["el"] = "dispatch"]_vars
    /\ [][InDrop /\ drop.why = "init_send" /\ ELMoves =>
             DropStepOk /\ drop.ret = "dispatch"]_vars

\* Connection 1 was accepted and sent the clipboard's text, its one frame;
\* connection 2 was accepted when it no longer read, and dropped.
C8_Witness ==
    /\ 1 \in Registered
    /\ Len(outbox[1]) = 1
    /\ outbox[1][1].via = "init"
    /\ IsFrameFor(outbox[1][1].bytes, TextA)
    /\ <<2, "init_send">> \in dropLog
    /\ 2 \notin Registered
    /\ 2 \notin sockOpen
    /\ outbox[2] = <<>>
    /\ last_polled = None
    /\ last_sent_from_pc = None

\* ---- C9
\* C9: when a call of shutdown returns, the stop flag is set, the selector
\* closed, the registry empty with every connection it held closed, the
\* listening socket closed and cleared; that holds for a second call and for
\* a call from another thread while the event loop is exiting.
C9_ShutdownPostcondition ==
    [][returned' # returned =>
          /\ stop'
          /\ selClosed'
          /\ selReg' = {}
          /\ clients' = <<>>
          /\ server' = "None"]_vars

\* ---- C10
\* The buffer starts with a complete frame, well formed, whose payload is not
\* UTF-8.
InvalidFrameAt(buf) ==
    /\ Len(buf) >= 5
    /\ buf[1] = MSG_TEXT
    /\ Unpack32(SubSeq(buf, 2, 5)) <= MAX_BYTES
    /\ Len(buf) >= 5 + Unpack32(SubSeq(buf, 2, 5))
    /\ ~Utf8Decode(SubSeq(buf, 6, 5 + Unpack32(SubSeq(buf, 2, 5)))).ok

\* The buffer starts with a complete frame.
CompleteFrameAt(buf) ==
    /\ Len(buf) >= 5
    /\ Len(buf) >= 5 + Unpack32(SubSeq(buf, 2, 5))

C10_SkipStep ==
    /\ pc["el"] = "frames"
    /\ InvalidFrameAt(rbuf[cur])
    /\ pc'["el"] # "frames" \/ rbuf'[cur] # rbuf[cur]

\* C10: a well-formed frame whose payload is not UTF-8 is taken out of the
\* buffer, exactly its bytes, and discarded: no clipboard write, no broadcast,
\* no drop, the connection stays registered and open, and decoding goes on
\* with the bytes behind it, so that no complete frame is left in the buffer
\* of a registered connection once its bytes are processed.
C10_InvalidUtf8Skipped ==
    /\ [](\A c \in Registered : AtRest(c) => ~CompleteFrameAt(rbuf[c]))
    /\ [][C10_SkipStep =>
             /\ rbuf'[cur] = SubSeq(rbuf[cur],
                                    6 + Unpack32(SubSeq(rbuf[cur], 2, 5)),
                                    Len(rbuf[cur]))
             /\ cur \in SeqToSet(clients')
             /\ UNCHANGED <<clients, selReg, sockOpen, clipboard, applied, outbox,
                            last_sent_from_pc, to_broadcast, cur, bcast, drop>>
             /\ pc'["el"] = "frames"]_vars

\* Connection 1 sent a frame that is not UTF-8 and then the frame of a text:
\* the first was skipped, the second applied, the connection is registered.
C10_Witness ==
    /\ <<1, "skip">> \in dropLog
    /\ TextsFrom(1) = <<TextA>>
    /\ 1 \in Registered
    /\ 1 \in sockOpen
    /\ rbuf[1] = <<>>
    /\ AtRest(1)

\* ---- C11
\* The complete frames at the start of the bytes, in order.
RECURSIVE FramesIn(_)
FramesIn(b) ==
    IF Len(b) < 5 \/ Len(b) < FrameLen(b) THEN <<>>
    ELSE <<SubSeq(b, 1, FrameLen(b))>> \o FramesIn(SubSeq(b, FrameLen(b) + 1, Len(b)))

\* s can be had from t by leaving elements out: the order is kept.
RECURSIVE IsSubseq(_, _)
IsSubseq(s, t) ==
    IF s = <<>> THEN TRUE
    ELSE IF t = <<>> THEN FALSE
    ELSE IF Head(s) = Head(t) THEN IsSubseq(Tail(s), Tail(t))
    ELSE IsSubseq(s, Tail(t))

\* The frames of the texts applied for c, in the order of the writes.
AppliedFrames(c) ==
    [i \in 1..Len(TextsFrom(c)) |-> frame_text(TextsFrom(c)[i]).bytes]

\* The frames of c relayed to d, in the order they were sent.
RelaysFrom(d, c) ==
    LET s == SelectSeq(outbox[d], LAMBDA e : e.via = "relay" /\ e.src = c)
    IN  [i \in 1..Len(s) |-> s[i].bytes]

\* C11: the frames of one connection are applied in the order of their bytes
\* in its stream, and every other connection is sent their relays in that
\* order: a frame's write or relay never comes before that of an earlier one.
C11_FifoPerConnection ==
    \A c \in Conns :
        /\ IsSubseq(AppliedFrames(c), FramesIn(stream[c]))
        /\ \A d \in Conns \ {c} : IsSubseq(RelaysFrom(d, c), FramesIn(stream[c]))

\* Connection 1 sent the frames of 'a' and 'b': both were applied, in that
\* order, and connection 2 was sent both relays, in that order.
C11_Witness ==
    /\ stream[1] = FrameA \o FrameB
    /\ TextsFrom(1) = <<TextA, TextB>>
    /\ RelaysFrom(2, 1) = <<FrameA, FrameB>>

\* ---- C12
\* C12: the queue is first in, first out and drained on every iteration: the
\* watcher adds at the tail; _broadcast_pending takes the head and calls
\* _broadcast with it, whose snapshot is the whole registry, none excluded,
\* and which sends the frame to each target or drops the target whose send
\* fails; _broadcast_pending returns exactly when it finds the queue empty;
\* and a queue that holds a frame is empty again later, unless the stop flag
\* is set.
C12_QueueFifoDrained ==
    /\ [][to_broadcast' # to_broadcast =>
             \/ /\ pc["w"] = "w_put"
                /\ Len(to_broadcast') = Len(to_broadcast) + 1
                /\ SubSeq(to_broadcast', 1, Len(to_broadcast)) = to_broadcast
                /\ IsFrameFor(to_broadcast'[Len(to_broadcast')], wtxt.text)
             \/ /\ pc["el"] = "pending"
                /\ to_broadcast' = Tail(to_broadcast)
                /\ bcast'.payload = Head(to_broadcast)
                /\ bcast'.via = "queue"
                /\ pc'["el"] = "bcast_snap"]_vars
    /\ [][pc["el"] = "bcast_snap" /\ bcast.via = "queue" /\ ELMoves =>
             bcast'.targets = clients /\ outbox' = outbox]_vars
    /\ [][pc["el"] = "bcast_send" /\ bcast.via = "queue" /\ ~BcastDone /\ ELMoves =>
             SendStepOk]_vars
    /\ [][pc["el"] = "bcast_send" /\ bcast.via = "queue" /\ BcastDone /\ ELMoves =>
             pc'["el"] = "pending" /\ outbox' = outbox]_vars
    /\ [](BcastDone /\ bcast.via = "queue" => OneFrameEach)
    /\ [][pc["el"] = "pending" /\ ELMoves =>
             (to_broadcast = <<>> <=> pc'["el"] = "loop")]_vars
    /\ (to_broadcast # <<>>) ~> (to_broadcast = <<>> \/ stop)

\* The frames of the watcher's queue sent to c, in the order they were sent.
QueuedTo(c) ==
    LET s == SelectSeq(outbox[c], LAMBDA e : e.via = "queue")
    IN  [i \in 1..Len(s) |-> s[i].bytes]

\* The watcher queued 'a' and then 'b'; both frames have been broadcast, in
\* that order, to connections 1 and 2, and the queue is empty.
C12_Witness ==
    /\ Len(enqueued) = 2
    /\ enqueued[1].text = TextA
    /\ enqueued[2].text = TextB
    /\ to_broadcast = <<>>
    /\ \A c \in {1, 2} : c \in Registered /\ QueuedTo(c) = <<FrameA, FrameB>>

\* ---- C13
\* C13: once the stop flag is set, the event loop begins no iteration after
\* the one it is in and neither does the watcher, each leaving its loop at its
\* next test of the flag; and when every thread gets to run, the event loop
\* ends, its own shutdown done, and the watcher ends.
C13_CooperativeStop ==
    /\ [][stop /\ pc["el"] = "loop" => pc'["el"] \in {"loop", "sd_stop"}]_vars
    /\ [][stop /\ pc["w"] = "w_loop" => pc'["w"] \in {"w_loop", "w_done"}]_vars
    /\ stop ~> (pc["el"] = "done" /\ pc["w"] = "w_done")

\* Another thread called shutdown while a connection was registered: the
\* event loop and the watcher have both ended.
C13_Witness ==
    /\ stop
    /\ "ext" \in returned
    /\ "el" \in returned
    /\ pc["el"] = "done"
    /\ pc["w"] = "w_done"
    /\ \E c \in Conns : <<c, "no_state">> \in dropLog \/ outbox[c] # <<>>

\* ---- C14
\* C14: the watcher thread runs until the stop flag is set: whatever a read of
\* the clipboard returns, the watcher is found ended or dead only after stop.
C14_WatcherRunsUntilStop ==
    pc["w"] \in {"w_done", "w_crashed"} => stop

\* ---- C15
\* No call of shutdown is under way.
NoShutdownRunning ==
    \A t \in {"el", "ext"} :
        pc[t] \notin {"sd_stop", "sd_sel", "sd_lock", "sd_close", "sd_clear",
                      "sd_server"}

\* C15: between the iterations of the event loop and after its end, no
\* shutdown being under way, a connection is in the registry exactly when it
\* is registered with the selector and its socket is open.
C15_RegistryMatchesSelector ==
    (NoShutdownRunning /\ pc["el"] \in {"loop", "done"})
        => \A c \in Conns : c \in Registered <=> (c \in selReg /\ c \in sockOpen)

\* ---- C16
\* C16: a thread that holds the registry lock does no input or output: its
\* steps open and close no socket, send and receive nothing, accept nothing
\* and leave the clipboard alone.
C16_NoIoUnderLock ==
    [][\A t \in Threads :
          (lock = t /\ pc'[t] # pc[t])
              => UNCHANGED <<sockOpen, outbox, netIn, backlog, clipboard>>]_vars

\* ---- C17
\* C17: the event loop and the watcher share the registry and the queue and
\* nothing else: a step of the watcher leaves the registry, the selector, the
\* sockets and the receive buffers as they are, and a step of the event loop
\* writes neither of the fields the watcher compares with, _last_polled and
\* _last_sent_from_pc.
C17_SharedOnlyRegistryAndQueue ==
    [][/\ pc'["w"] # pc["w"]
          => UNCHANGED <<clients, rbuf, selReg, sockOpen, outbox, netIn>>
       /\ pc'["el"] # pc["el"]
          => UNCHANGED <<last_polled, last_sent_from_pc>>]_vars

\* ---- C18
\* The watcher is in a tick, past a read that succeeded.
InTick ==
    pc["w"] \in {"w_cmp_polled", "w_cmp_sent", "w_queue", "w_put", "w_set_polled"}

\* C18: a tick whose read fails changes neither _last_polled nor
\* _last_sent_from_pc nor the queue; a tick that read the text t queues when t
\* differs from _last_polled or that is unset, t differs from
\* _last_sent_from_pc and t is not empty, and then _last_sent_from_pc becomes
\* t and exactly one frame of t is queued; otherwise nothing is queued; and
\* the tick ends with _last_polled equal to t.
C18_WatcherTickRule ==
    [][pc'["w"] # pc["w"] =>
          /\ pc["w"] = "w_read" /\ pc'["w"] = "w_loop"
                => UNCHANGED <<last_polled, last_sent_from_pc, to_broadcast>>
          /\ pc["w"] = "w_cmp_polled"
                => /\ pc'["w"] = "w_loop" <=> last_polled = Some(wtxt.text)
                   /\ UNCHANGED <<last_polled, last_sent_from_pc, to_broadcast>>
          /\ pc["w"] = "w_cmp_sent"
                => /\ pc'["w"] = "w_queue"
                        <=> (last_sent_from_pc # Some(wtxt.text) /\ wtxt.text # <<>>)
                   /\ UNCHANGED <<last_polled, last_sent_from_pc, to_broadcast>>
          /\ pc["w"] = "w_queue"
                => /\ last_sent_from_pc' = Some(wtxt.text)
                   /\ pc'["w"] = "w_put"
                   /\ UNCHANGED <<last_polled, to_broadcast>>
          /\ pc["w"] = "w_put"
                => /\ Len(to_broadcast') = Len(to_broadcast) + 1
                   /\ SubSeq(to_broadcast', 1, Len(to_broadcast)) = to_broadcast
                   /\ IsFrameFor(to_broadcast'[Len(to_broadcast')], wtxt.text)
                   /\ UNCHANGED <<last_polled, last_sent_from_pc>>
          /\ pc["w"] # "w_put" => Len(to_broadcast') <= Len(to_broadcast)
          /\ InTick /\ ~InTick'
                => pc'["w"] = "w_loop" /\ last_polled' = Some(wtxt.text)]_vars

\* ---- C19
\* C19: once _process_frames has returned for a connection it did not drop,
\* the receive buffer holds fewer than 5 bytes, or a header of type MSG_TEXT
\* with a length L of at most MAX_BYTES and fewer than L bytes of payload; so
\* the buffer of a registered connection is shorter than 5 + MAX_BYTES bytes.
C19_BufferHoldsNoFrame ==
    \A c \in Registered :
        AtRest(c) =>
            /\ \/ Len(rbuf[c]) < 5
               \/ /\ rbuf[c][1] = MSG_TEXT
                  /\ Unpack32(SubSeq(rbuf[c], 2, 5)) <= MAX_BYTES
                  /\ Len(rbuf[c]) < 5 + Unpack32(SubSeq(rbuf[c], 2, 5))
            /\ Len(rbuf[c]) < 5 + MAX_BYTES

\* Connection 1's first frame was applied; of the second, which announces
\* MAX_BYTES bytes, the header is buffered whole and the payload is awaited.
C19_Witness ==
    /\ 1 \in Registered
    /\ AtRest(1)
    /\ TextsFrom(1) = <<TextA>>
    /\ rbuf[1] = <<1, 0, 16, 0, 0>>
    /\ pc["el"] = "loop"

\* ---- C20
\* The event loop is in _handle_client for a socket that is not in the
\* registry, or in the call of _drop_client which that makes.
C20_Stale ==
    \/ pc["el"] = "handle" /\ cur \notin Registered
    \/ InDrop /\ drop.why = "no_state"

\* C20: the call of _handle_client for a connection dropped earlier in the
\* same batch of events reads nothing, writes no clipboard and sends nothing:
\* it calls _drop_client, which finds the connection absent and leaves the
\* registry, the selector, the sockets, the buffers and the sync state as
\* they are, and the event loop goes on with the batch.
C20_StaleEventHarmless ==
    [][C20_Stale /\ ELMoves =>
          /\ UNCHANGED <<clients, rbuf, selReg, sockOpen, netIn, clipboard, applied,
                         outbox, to_broadcast, last_polled, last_sent_from_pc,
                         stop, selClosed, server, bcast>>
          /\ pc["el"] = "handle" =>
                /\ pc'["el"] = "drop_pop"
                /\ drop' = [sock |-> cur, why |-> "no_state", ret |-> "dispatch"]
          /\ pc["el"] = "drop_pop" => pc'["el"] = "drop_close" /\ drop' = drop
          /\ pc["el"] = "drop_close" => pc'["el"] = "dispatch"]_vars

\* Connections 1 and 2 were ready in one batch: the relay of connection 1's
\* frame failed for connection 2 and dropped it, and the event of connection 2
\* was then handled with its bytes left unread and nothing applied from it.
C20_Witness ==
    /\ <<2, "send">> \in dropLog
    /\ <<2, "no_state">> \in dropLog
    /\ netIn[2] = FrameB
    /\ TextsFrom(2) = <<>>
    /\ TextsFrom(1) = <<TextA>>
    /\ 1 \in Registered
    /\ 2 \notin Registered
====
